---- MODULE Spec2Model ----
(***************************************************************************)
(* Model of the AI-generation glue layer of the photobooth application:    *)
(*   src/lib/gemini.ts               resizeImageForOpenAI,                  *)
(*                                   detectPeopleCount, generateAIImage     *)
(*   src/api/generate-video.ts       the Vertex AI Veo endpoint handler     *)
(*   src/api/generate-image-openai.ts the OpenAI image-edit endpoint        *)
(*                                                                         *)
(* Every await of the source is a position of the corresponding program    *)
(* counter; the code between two awaits is one atomic action.              *)
(*                                                                         *)
(* JavaScript values are tagged records: [t |-> "undefined"],              *)
(* [t |-> "null"], [t |-> "string", v |-> s], [t |-> "object", ...].       *)
(***************************************************************************)
EXTENDS Integers, Sequences, FiniteSets, TLC

VARIABLES
    env,        \* process.env of the serverless functions and of the client
    storage,    \* localStorage item 'pb_settings' (client)
    rpc,        \* resizeImageForOpenAI: position of the image-load promise
    rimg,       \* resizeImageForOpenAI: the Image element being loaded
    rmaxDim,    \* resizeImageForOpenAI: the maxDim argument
    rout,       \* resizeImageForOpenAI: what the promise settled with
    vpc,        \* generate-video handler: position
    vreq,       \* generate-video handler: the request being served
    vres,       \* generate-video handler: responses sent on res, in order
    vout,       \* generate-video handler: outbound calls made, in order
    vin,        \* generate-video handler: what each await settled with
    opc,        \* generate-image-openai handler: position
    oreq,       \* generate-image-openai handler: the request being served
    ores,       \* generate-image-openai handler: responses sent on res
    oout,       \* generate-image-openai handler: outbound calls made
    oin,        \* generate-image-openai handler: what each await settled with
    gpc,        \* generateAIImage: position
    gargs,      \* generateAIImage: its arguments
    selectedModel, \* generateAIImage: local selectedModel
    gptSize,    \* generateAIImage: local gptSize
    calls,      \* generateAIImage: image-generation calls issued, in order
    inFlight,   \* generateAIImage: provider calls awaiting their answer
    detections, \* generateAIImage: answers of detectPeopleCount, in order
    outcomes,   \* generateAIImage: how each generation call ended, in order
    gresponse,  \* generateAIImage: the Response whose body is being read
    gresult     \* generateAIImage: what the caller observes

vars == <<env, storage, rpc, rimg, rmaxDim, rout, vpc, vreq, vres, vout, vin,
          opc, oreq, ores, oout, oin, gpc, gargs, selectedModel, gptSize, calls,
          inFlight, detections, outcomes, gresponse, gresult>>

resizeVars == <<rpc, rimg, rmaxDim, rout>>
videoVars  == <<vpc, vreq, vres, vout, vin>>
openaiVars == <<opc, oreq, ores, oout, oin>>
genVars    == <<gpc, gargs, selectedModel, gptSize, calls, inFlight,
                detections, outcomes, gresponse, gresult>>

----------------------------------------------------------------------------
(* Bounds of the model *)

\* largest source image edge enumerated for resizeImageForOpenAI
MaxSide == 9
\* largest target dimension enumerated for resizeImageForOpenAI
MaxDim == 6
\* longest detector answer (in characters) enumerated
MaxTextLen == 2

----------------------------------------------------------------------------
(* JavaScript values *)

Undefined == [t |-> "undefined"]
Null == [t |-> "null"]
Str(s) == [t |-> "string", v |-> s]

\* ToBoolean of the values the model uses: undefined, null and "" are falsy
Truthy(x) ==
    CASE x.t = "string" -> x.v # ""
      [] x.t = "chars"  -> x.v # <<>>
      [] x.t = "object" -> TRUE
      [] x.t = "array"  -> TRUE
      [] x.t = "number" -> x.v # 0
      [] OTHER -> FALSE

Num(n) == [t |-> "number", v |-> n]

\* a thrown Error (or rejection reason) carrying a message
Err(msg) == [t |-> "error", message |-> msg]

None == [t |-> "none"]

----------------------------------------------------------------------------
(* resizeImageForOpenAI, src/lib/gemini.ts:6-72 *)

\* Math.round(n / d) for n >= 0, d > 0 computed exactly: floor(n/d + 1/2)
MathRound(n, d) == (2 * n + d) \div (2 * d)

\* The source computes the quotient in two floating-point steps
\* (ratio = w / h, then maxDim / ratio or maxDim * ratio).  Off a tie the
\* rounding error cannot change Math.round; on an exact tie k + 1/2 the
\* double may come out just below the tie (e.g. 9 / (18 / 7) =
\* 3.4999999999999996), so Math.round yields k or k + 1.
RoundedQuotients(n, d) ==
    IF (2 * n) % d = 0 /\ ((2 * n) \div d) % 2 = 1
    THEN {MathRound(n, d) - 1, MathRound(n, d)}
    ELSE {MathRound(n, d)}

\* lines 11-26: the drawn sizes <<w, h>> for a source of w x h
ScaledSizesWrongBranch(w, h, maxDim) ==
    IF w > h
    THEN IF w > maxDim
         THEN {<<maxDim, hh>> : hh \in RoundedQuotients(maxDim * h, w)}
         ELSE {<<w, h>>}
    ELSE IF w > maxDim
         THEN {<<ww, maxDim>> : ww \in RoundedQuotients(maxDim * w, h)}
         ELSE {<<w, h>>}

ScaledSizes(w, h, maxDim) ==
    IF w > h
    THEN IF w > maxDim
         THEN {<<maxDim, hh>> : hh \in RoundedQuotients(maxDim * h, w)}
         ELSE {<<w, h>>}
    ELSE IF h > maxDim
         THEN {<<ww, maxDim>> : ww \in RoundedQuotients(maxDim * w, h)}
         ELSE {<<w, h>>}

\* an Image element: whether its source decodes, and its natural size;
\* ctx / maskCtx: whether canvas.getContext('2d') returns a context
Image(decodes, w, h, ctx, maskCtx) ==
    [decodes |-> decodes, width |-> w, height |-> h, ctx |-> ctx,
     maskCtx |-> maskCtx]

\* lines 7-8, 69-70: new Image(); img.src = base64Str
StartResize(img, maxDim) ==
    /\ rpc' = "loading"
    /\ rimg' = img
    /\ rmaxDim' = maxDim
    /\ rout' = None

\* lines 9-68: img.onload
ImgOnload ==
    /\ rpc = "loading"
    /\ rimg.decodes
    /\ IF ~rimg.ctx
       THEN /\ rpc' = "rejected"
            /\ rout' = Err("No Canvas Context")
       ELSE \E s \in ScaledSizes(rimg.width, rimg.height, rmaxDim) :
              IF ~rimg.maskCtx
              THEN /\ rpc' = "rejected"
                   /\ rout' = Err("No Mask Context")
              ELSE /\ rpc' = "resolved"
                   /\ rout' = [t |-> "resized",
                               image |-> [width |-> rmaxDim,
                                          height |-> rmaxDim,
                                          drawW |-> s[1], drawH |-> s[2],
                                          padX |-> rmaxDim - s[1],
                                          padY |-> rmaxDim - s[2]],
                               mask |-> [width |-> rmaxDim,
                                         height |-> rmaxDim]]
    /\ UNCHANGED <<rimg, rmaxDim>>
    /\ UNCHANGED <<env, storage, videoVars, openaiVars, genVars>>

\* line 69: img.onerror = reject
ImgOnerror ==
    /\ rpc = "loading"
    /\ ~rimg.decodes
    /\ rpc' = "rejected"
    /\ rout' = Err("image load error")
    /\ UNCHANGED <<rimg, rmaxDim>>
    /\ UNCHANGED <<env, storage, videoVars, openaiVars, genVars>>

ResizeIdle ==
    /\ rpc = "idle"
    /\ rimg = None
    /\ rmaxDim = 0
    /\ rout = None

----------------------------------------------------------------------------
(* process.env *)

EnvValues == {Undefined, Str(""), Str("set")}

EnvNames == {"GCP_PROJECT_ID", "GCP_CLIENT_EMAIL", "GCP_PRIVATE_KEY",
             "OPENAI_API_KEY", "API_KEY"}

\* an environment in which only the names in `free` are left open
Envs(free) ==
    {e \in [EnvNames -> EnvValues] :
        \A n \in EnvNames \ free : e[n] = Str("set")}

----------------------------------------------------------------------------
(* HTTP plumbing shared by the two serverless handlers *)

Methods == {"OPTIONS", "GET", "POST"}

\* res.status(code).json(body) / res.status(code).end()
Response(code, body) == [status |-> code, body |-> body]
ErrorBody(msg) == [error |-> msg]
EndBody == [ended |-> TRUE]

\* error.message || fallback
MessageOr(e, fallback) == IF e.message # "" THEN e.message ELSE fallback

Payloads == {"AAAA", "QkJD"}

----------------------------------------------------------------------------
(* generate-video handler, src/api/generate-video.ts:10-132 *)

VideoBodies ==
    {Undefined} \cup
    [t : {"object"},
     image : {Undefined, Str(""), Str("data:image/png;base64,AAAA")},
     prompt : {Undefined, Str(""), Str("make it dance")},
     aspectRatio : {Undefined, Str("16:9")}]

VideoRequests == [method : Methods, body : VideoBodies]

CredentialError ==
    "Server configuration error: Missing GCP Credentials. Please set GCP_PROJECT_ID, GCP_CLIENT_EMAIL, and GCP_PRIVATE_KEY in Vercel."

\* lines 33-35: privateKey is GCP_PRIVATE_KEY with "\\n" unescaped, which
\* keeps an unset or empty variable falsy
CredentialsMissingAll(e) ==
    ~Truthy(e["GCP_PROJECT_ID"]) /\ ~Truthy(e["GCP_CLIENT_EMAIL"])
        /\ ~Truthy(e["GCP_PRIVATE_KEY"])

\* line 37 with the private key left out of the test / as written
CredentialsMissingIgnoresKey(e) ==
    ~Truthy(e["GCP_PROJECT_ID"]) \/ ~Truthy(e["GCP_CLIENT_EMAIL"])

\* line 37
CredentialsMissing(e) ==
    ~Truthy(e["GCP_PROJECT_ID"]) \/ ~Truthy(e["GCP_CLIENT_EMAIL"])
        \/ ~Truthy(e["GCP_PRIVATE_KEY"])

\* line 29 with the image test dropped / as written
MissingFieldsPromptOnly(body) == ~Truthy(body.prompt)

MissingFields(body) == ~Truthy(body.image) \/ ~Truthy(body.prompt)

\* lines 128-131: the catch block answers 500 with the error's message
VideoCatch(e) ==
    /\ vres' = Append(vres,
                      Response(500, ErrorBody(MessageOr(e, "Internal Server Error"))))
    /\ vpc' = "done"

VideoRespond(code, body) ==
    /\ vres' = Append(vres, Response(code, body))
    /\ vpc' = "done"

\* lines 10-52: from the invocation to the first await, auth.getClient(),
\* which opens the token exchange with Google
VideoInvoke ==
    /\ vpc = "idle"
    /\ \E req \in VideoRequests :
        /\ vreq' = req
        /\ IF req.method = "OPTIONS"
           THEN VideoRespond(200, EndBody) /\ UNCHANGED vout
           ELSE IF req.method # "POST"
           THEN VideoRespond(405, ErrorBody("Method not allowed"))
                /\ UNCHANGED vout
           ELSE IF req.body = Undefined
           THEN \* line 27: destructuring undefined throws a TypeError
                VideoCatch(Err("Cannot destructure property 'image' of 'req.body' as it is undefined."))
                /\ UNCHANGED vout
           ELSE IF MissingFields(req.body)
           THEN VideoRespond(400, ErrorBody("Missing image or prompt"))
                /\ UNCHANGED vout
           ELSE IF CredentialsMissing(env)
           THEN VideoRespond(500, ErrorBody(CredentialError))
                /\ UNCHANGED vout
           ELSE /\ vout' = Append(vout, [call |-> "token"])
                /\ vpc' = "awaitClient"
                /\ UNCHANGED vres
    /\ UNCHANGED <<env, storage, vin, resizeVars, openaiVars, genVars>>

TokenErrors == {Err("invalid_grant: Invalid JWT Signature."), Err("")}

\* line 52 failing: auth.getClient() rejects
VideoClientFails ==
    /\ vpc = "awaitClient"
    /\ \E e \in TokenErrors : VideoCatch(e) /\ vin' = Append(vin, e)
    /\ UNCHANGED <<env, storage, vreq, vout, resizeVars, openaiVars, genVars>>

\* lines 52-53: auth.getClient() resolves and client.getAccessToken() is
\* awaited
VideoClientResolves ==
    /\ vpc = "awaitClient"
    /\ vpc' = "awaitToken"
    /\ vin' = Append(vin, [t |-> "client"])
    /\ UNCHANGED <<env, storage, vreq, vres, vout, resizeVars, openaiVars, genVars>>

\* line 53 failing: client.getAccessToken() rejects
VideoTokenFails ==
    /\ vpc = "awaitToken"
    /\ \E e \in TokenErrors : VideoCatch(e) /\ vin' = Append(vin, e)
    /\ UNCHANGED <<env, storage, vreq, vout, resizeVars, openaiVars, genVars>>

\* lines 76: aspectRatio || "9:16"
AspectOrDefault(a) == IF Truthy(a) THEN a.v ELSE "9:16"

\* lines 53-92: the token arrives and the predict request is sent
VideoTokenArrives ==
    /\ vpc = "awaitToken"
    /\ vout' = Append(vout,
                      [call |-> "predict",
                       prompt |-> vreq.body.prompt.v,
                       aspectRatio |-> AspectOrDefault(vreq.body.aspectRatio),
                       sampleCount |-> 1])
    /\ vpc' = "awaitFetch"
    /\ vin' = Append(vin, [t |-> "token", token |-> "ya29.token"])
    /\ UNCHANGED <<env, storage, vreq, vres, resizeVars, openaiVars, genVars>>

\* the values of predictions[0]
Base64Field == {Undefined, Str("")} \cup {Str(p) : p \in Payloads}

VideoObjects == {Undefined} \cup [t : {"object"}, bytesBase64Encoded : Base64Field]

Predictions ==
    {Null} \cup {Str("")} \cup {Str(p) : p \in Payloads} \cup
    [t : {"object"}, bytesBase64Encoded : Base64Field, video : VideoObjects]

Arr(items) == [t |-> "array", items |-> items]

\* the JSON bodies of a Vertex answer
VertexData ==
    {Null} \cup
    [t : {"object"}, error : {Undefined},
     predictions : {Undefined, Arr(<<>>)} \cup {Arr(<<p>>) : p \in Predictions}
                   \cup {Arr(<<Str("AAAA"), Str("QkJD")>>)}] \cup
    [t : {"object"},
     error : {[t |-> "object", message |-> Str("Quota exceeded")],
              [t |-> "object", message |-> Undefined]},
     predictions : {Undefined}]

\* what fetch settles with (line 85): a rejection or a Response
VertexAnswers ==
    {Err("fetch failed")}
    \cup {[t |-> "response", ok |-> TRUE, status |-> 200]}
    \cup {[t |-> "response", ok |-> FALSE, status |-> st] : st \in {429, 500}}

\* what response.json() settles with (line 94) for the Response r: a
\* rejection when the body is not JSON, or the parsed body
VertexBodies(r) ==
    {Err("Unexpected token < in JSON at position 0")}
    \cup (IF r.ok THEN VertexData
          ELSE {x \in VertexData : x = Null \/ x.predictions = Undefined})

StatusText(st) ==
    CASE st = 200 -> "200" [] st = 429 -> "429" [] st = 500 -> "500"
      [] st = 400 -> "400" [] st = 405 -> "405"

\* lines 96-99: the Error thrown for a non-2xx answer
VertexFailure(data, st) ==
    IF data = Null
    THEN Err("Cannot read properties of null (reading 'error')")
    ELSE IF data.error # Undefined /\ Truthy(data.error.message)
    THEN Err(data.error.message.v)
    ELSE Err("Vertex AI API Failed with status " \o StatusText(st))

\* lines 103-118: probe of the response shapes.  The result is the value
\* left in videoBase64, or the TypeError a property read of null throws.
ExtractVideoNoNested(data) ==
    IF data = Null
    THEN Err("Cannot read properties of null (reading 'predictions')")
    ELSE IF ~(Truthy(data.predictions) /\ Len(data.predictions.items) > 0)
    THEN Null
    ELSE LET prediction == data.predictions.items[1] IN
         IF prediction.t = "string" THEN prediction
         ELSE IF prediction = Null
         THEN Err("Cannot read properties of null (reading 'bytesBase64Encoded')")
         ELSE IF Truthy(prediction.bytesBase64Encoded)
         THEN prediction.bytesBase64Encoded
         ELSE Null

ExtractVideo(data) ==
    IF data = Null
    THEN Err("Cannot read properties of null (reading 'predictions')")
    ELSE IF ~(Truthy(data.predictions) /\ Len(data.predictions.items) > 0)
    THEN Null
    ELSE LET prediction == data.predictions.items[1] IN
         IF prediction.t = "string" THEN prediction
         ELSE IF prediction = Null
         THEN Err("Cannot read properties of null (reading 'bytesBase64Encoded')")
         ELSE IF Truthy(prediction.bytesBase64Encoded)
         THEN prediction.bytesBase64Encoded
         ELSE IF prediction.video # Undefined
                 /\ Truthy(prediction.video.bytesBase64Encoded)
         THEN prediction.video.bytesBase64Encoded
         ELSE Null

VideoDataUri(payload) == "data:video/mp4;base64," \o payload

\* lines 85-94: fetch settles; a Response has its body read next
VideoFetchSettles ==
    /\ vpc = "awaitFetch"
    /\ \E ans \in VertexAnswers :
        /\ vin' = Append(vin, ans)
        /\ IF ans.t = "error" THEN VideoCatch(ans)
           ELSE vpc' = "awaitJson" /\ UNCHANGED vres
    /\ UNCHANGED <<env, storage, vreq, vout, resizeVars, openaiVars, genVars>>

\* lines 94-131: response.json() settles
VideoJsonSettles ==
    /\ vpc = "awaitJson"
    /\ LET response == vin[Len(vin)] IN
        \E data \in VertexBodies(response) :
            /\ vin' = Append(vin, data)
            /\ IF data.t = "error" THEN VideoCatch(data)
               ELSE IF ~response.ok
               THEN VideoCatch(VertexFailure(data, response.status))
               ELSE LET videoBase64 == ExtractVideo(data) IN
                    IF videoBase64.t = "error" THEN VideoCatch(videoBase64)
                    ELSE IF ~Truthy(videoBase64)
                    THEN VideoRespond(500, ErrorBody("No video data received from Vertex AI."))
                    ELSE VideoRespond(200, [video |-> VideoDataUri(videoBase64.v)])
    /\ UNCHANGED <<env, storage, vreq, vout, resizeVars, openaiVars, genVars>>

VideoIdle ==
    /\ vpc = "idle"
    /\ vreq = None
    /\ vres = <<>>
    /\ vout = <<>>
    /\ vin = <<>>

----------------------------------------------------------------------------
(* generate-image-openai handler, src/api/generate-image-openai.ts:9-81 *)

OpenAIBodies ==
    {Undefined} \cup
    [t : {"object"},
     prompt : {Undefined, Str(""), Str("as an astronaut")},
     imageBase64 : {Undefined, Str(""), Str("data:image/png;base64,AAAA")},
     maskBase64 : {Undefined, Str("data:image/png;base64,TUFTSw==")},
     size : {Undefined, Num(720)}]

OpenAIRequests == [method : Methods, body : OpenAIBodies]

NumberText(n) ==
    CASE n = 512 -> "512" [] n = 720 -> "720" [] n = 1024 -> "1024"

\* line 58: size ? `${size}x${size}` : "1024x1024"
SizeStr(size) ==
    IF Truthy(size) THEN NumberText(size.v) \o "x" \o NumberText(size.v)
    ELSE "1024x1024"

\* lines 77-80
OpenAICatch(e) ==
    /\ ores' = Append(ores,
                      Response(500, ErrorBody(MessageOr(e, "OpenAI Generation Failed"))))
    /\ opc' = "done"

OpenAIRespond(code, body) ==
    /\ ores' = Append(ores, Response(code, body))
    /\ opc' = "done"

\* lines 62-70: the openai.images.edit request
EditCall(body) ==
    [call |-> "images.edit",
     model |-> "gpt-image-1.5",
     prompt |-> body.prompt.v,
     mask |-> Truthy(body.maskBase64),
     n |-> 1,
     size |-> SizeStr(body.size),
     response_format |-> "b64_json"]

\* lines 9-64: from the invocation to the first await, toFile(imageBuffer)
OpenAIInvoke ==
    /\ opc = "idle"
    /\ \E req \in OpenAIRequests :
        /\ oreq' = req
        /\ IF req.method = "OPTIONS"
           THEN OpenAIRespond(200, EndBody) /\ UNCHANGED oout
           ELSE IF req.method # "POST"
           THEN OpenAIRespond(405, ErrorBody("Method not allowed"))
                /\ UNCHANGED oout
           ELSE IF ~Truthy(env["OPENAI_API_KEY"])
           THEN OpenAIRespond(500, ErrorBody("Server config error: OPENAI_API_KEY missing"))
                /\ UNCHANGED oout
           ELSE IF req.body = Undefined
           THEN \* line 32: destructuring undefined throws a TypeError
                OpenAICatch(Err("Cannot destructure property 'prompt' of 'req.body' as it is undefined."))
                /\ UNCHANGED oout
           ELSE IF ~Truthy(req.body.prompt) \/ ~Truthy(req.body.imageBase64)
           THEN OpenAIRespond(400, ErrorBody("Missing prompt or image"))
                /\ UNCHANGED oout
           ELSE /\ opc' = "awaitImageFile"
                /\ UNCHANGED <<ores, oout>>
    /\ UNCHANGED <<env, storage, oin, resizeVars, videoVars, genVars>>

\* what toFile(buffer, name) settles with
ToFileAnswers(name) == {Err("Invalid file"), [t |-> "file", name |-> name]}

\* lines 62-70: every argument is ready and openai.images.edit is called
OpenAICallEdit ==
    /\ oout' = Append(oout, EditCall(oreq.body))
    /\ opc' = "awaitEdit"
    /\ UNCHANGED ores

\* lines 64-65: toFile(imageBuffer, 'image.png') settles; with a mask the
\* second toFile is awaited, without one images.edit is called
OpenAIImageFileSettles ==
    /\ opc = "awaitImageFile"
    /\ \E ans \in ToFileAnswers("image.png") :
        /\ oin' = Append(oin, ans)
        /\ IF ans.t = "error" THEN OpenAICatch(ans) /\ UNCHANGED oout
           ELSE IF Truthy(oreq.body.maskBase64)
           THEN opc' = "awaitMaskFile" /\ UNCHANGED <<ores, oout>>
           ELSE OpenAICallEdit
    /\ UNCHANGED <<env, storage, oreq, resizeVars, videoVars, genVars>>

\* lines 65-70: toFile(maskBuffer, 'mask.png') settles
OpenAIMaskFileSettles ==
    /\ opc = "awaitMaskFile"
    /\ \E ans \in ToFileAnswers("mask.png") :
        /\ oin' = Append(oin, ans)
        /\ IF ans.t = "error" THEN OpenAICatch(ans) /\ UNCHANGED oout
           ELSE OpenAICallEdit
    /\ UNCHANGED <<env, storage, oreq, resizeVars, videoVars, genVars>>

\* what openai.images.edit can settle with
OpenAIAnswers ==
    {Err("400 Invalid size"), Err("")}
    \cup [t : {"response"},
          data : {Undefined, Arr(<<>>),
                  Arr(<<[t |-> "object", b64_json |-> Undefined]>>)}
                 \cup {Arr(<<[t |-> "object", b64_json |-> Str(p)]>>) :
                         p \in Payloads}]

\* line 72: response.data?.[0]?.b64_json
FirstB64(response) ==
    IF response.data = Undefined \/ Len(response.data.items) = 0
    THEN Undefined
    ELSE response.data.items[1].b64_json

ImageDataUri(payload) == "data:image/png;base64," \o payload

\* lines 62-80: openai.images.edit settles
OpenAIEditSettles ==
    /\ opc = "awaitEdit"
    /\ \E ans \in OpenAIAnswers :
        /\ oin' = Append(oin, ans)
        /\ IF ans.t = "error" THEN OpenAICatch(ans)
           ELSE LET outputBase64 == FirstB64(ans) IN
                IF ~Truthy(outputBase64)
                THEN OpenAICatch(Err("No image returned"))
                ELSE OpenAIRespond(200, [imageBase64 |-> ImageDataUri(outputBase64.v)])
    /\ UNCHANGED <<env, storage, oreq, oout, resizeVars, videoVars, genVars>>

OpenAIIdle ==
    /\ opc = "idle"
    /\ oreq = None
    /\ ores = <<>>
    /\ oout = <<>>
    /\ oin = <<>>

----------------------------------------------------------------------------
(* parseInt, as used at src/lib/gemini.ts:89 and :111 *)

\* a string whose characters matter: [t |-> "chars", v |-> <<"7", "2", "0">>].
\* A character is a one-character string; the characters that have no
\* escape here are written by their code point ("U+00A0").
Chars(seq) == [t |-> "chars", v |-> seq]

NaN == [t |-> "NaN"]

Digits == {"0", "1", "2", "3", "4", "5", "6", "7", "8", "9"}

HexDigits ==
    Digits \cup {"a", "b", "c", "d", "e", "f", "A", "B", "C", "D", "E", "F"}

DigitValue(c) ==
    CASE c = "0" -> 0 [] c = "1" -> 1 [] c = "2" -> 2 [] c = "3" -> 3
      [] c = "4" -> 4 [] c = "5" -> 5 [] c = "6" -> 6 [] c = "7" -> 7
      [] c = "8" -> 8 [] c = "9" -> 9
      [] c \in {"a", "A"} -> 10 [] c \in {"b", "B"} -> 11
      [] c \in {"c", "C"} -> 12 [] c \in {"d", "D"} -> 13
      [] c \in {"e", "E"} -> 14 [] c \in {"f", "F"} -> 15

\* the characters String.prototype.trim and parseInt strip: the WhiteSpace
\* and LineTerminator code points of ECMAScript (tab, line feed, vertical
\* tab, form feed, carriage return, space, no-break space, the Unicode
\* space separators, the line and paragraph separators, the byte order mark)
WhiteSpace ==
    {" ", "\t", "\n", "\f", "\r", "U+000B", "U+00A0", "U+1680", "U+2000",
     "U+2001", "U+2002", "U+2003", "U+2004", "U+2005", "U+2006", "U+2007",
     "U+2008", "U+2009", "U+200A", "U+2028", "U+2029", "U+202F", "U+205F",
     "U+3000", "U+FEFF"}

RECURSIVE TrimStart(_)
TrimStart(seq) ==
    IF seq # <<>> /\ Head(seq) \in WhiteSpace THEN TrimStart(Tail(seq)) ELSE seq

RECURSIVE TrimEnd(_)
TrimEnd(seq) ==
    IF seq # <<>> /\ seq[Len(seq)] \in WhiteSpace
    THEN TrimEnd(SubSeq(seq, 1, Len(seq) - 1))
    ELSE seq

\* String.prototype.trim
Trim(seq) == TrimEnd(TrimStart(seq))

\* the digits of a radix (10 or 16)
RadixDigits(radix) == IF radix = 16 THEN HexDigits ELSE Digits

\* the value of the longest prefix of radix digits of seq, after acc
RECURSIVE DigitPrefix(_, _, _)
DigitPrefix(seq, acc, radix) ==
    IF seq # <<>> /\ Head(seq) \in RadixDigits(radix)
    THEN DigitPrefix(Tail(seq), radix * acc + DigitValue(Head(seq)), radix)
    ELSE acc

\* parseInt(string) without a radix: leading white space is skipped, then
\* an optional sign, then "0x" or "0X" selects radix 16 (radix 10
\* otherwise), then the longest run of digits of the radix is the value;
\* NaN when that run is empty.  (-0 is 0 here: the callers only compare the
\* result with 1; the texts are short enough for the value to be exact.)
ParseInt(seq) ==
    LET s0 == TrimStart(seq)
        neg == s0 # <<>> /\ Head(s0) = "-"
        s1 == IF s0 # <<>> /\ Head(s0) \in {"-", "+"} THEN Tail(s0) ELSE s0
        hex == Len(s1) >= 2 /\ s1[1] = "0" /\ s1[2] \in {"x", "X"}
        radix == IF hex THEN 16 ELSE 10
        s2 == IF hex THEN SubSeq(s1, 3, Len(s1)) ELSE s1
    IN  IF s2 = <<>> \/ Head(s2) \notin RadixDigits(radix) THEN NaN
        ELSE Num(IF neg THEN -DigitPrefix(s2, 0, radix)
                 ELSE DigitPrefix(s2, 0, radix))

----------------------------------------------------------------------------
(* detectPeopleCount, src/lib/gemini.ts:74-97 *)

TextAlphabet == {" ", "\n", "-", "0", "1", "2", "a", "x"}

\* longer answers: hexadecimal notation, and a number wrapped in white
\* space other than the space character
SampleTexts ==
    {<<"0", "x", "2">>, <<"0", "X", "1", "f">>, <<"-", "0", "x", "1", "0">>,
     <<"\r", "\n", "2">>, <<"\t", "2", "\n">>, <<"U+00A0", "2">>,
     <<"2", " ", "p", "e", "o", "p", "l", "e">>}

\* the texts the detector model may answer with
Texts == UNION {[1..n -> TextAlphabet] : n \in 0..MaxTextLen} \cup SampleTexts

\* what ai.models.generateContent settles with for the detector prompt
DetectorAnswers ==
    {Err("503 The model is overloaded.")}
    \cup {[t |-> "response", text |-> Undefined]}
    \cup {[t |-> "response", text |-> Chars(x)] : x \in Texts}

\* lines 86-96: the count returned for an answer
DetectPeopleCount(ans) ==
    IF ans.t = "error" THEN 1
    ELSE IF ans.text = Undefined \/ ans.text.v = <<>> THEN 1
    ELSE LET num == ParseInt(Trim(ans.text.v)) IN
         IF num = NaN THEN 1 ELSE num.v

----------------------------------------------------------------------------
(* generateAIImage, src/lib/gemini.ts:99-233 *)

\* Model ids are sequences of characters, for includes() to be computed.

\* 'gemini-2.5-flash-image'
FlashModel ==
    <<"g", "e", "m", "i", "n", "i", "-", "2", ".", "5", "-", "f", "l",
      "a", "s", "h", "-", "i", "m", "a", "g", "e">>

\* 'gemini-3-pro-image-preview'
ProModel ==
    <<"g", "e", "m", "i", "n", "i", "-", "3", "-", "p", "r", "o", "-",
      "i", "m", "a", "g", "e", "-", "p", "r", "e", "v", "i", "e", "w">>

\* 'gpt-image-1.5'
OpenAIModel ==
    <<"g", "p", "t", "-", "i", "m", "a", "g", "e", "-", "1", ".", "5">>

\* 'auto'
AutoModel == <<"a", "u", "t", "o">>

\* ids the settings screen does not offer but the store may hold
\* (selectedModel is a plain string, types.ts)

\* 'gemini-2.0-flash-exp'
FlashExpModel ==
    <<"g", "e", "m", "i", "n", "i", "-", "2", ".", "0", "-", "f", "l",
      "a", "s", "h", "-", "e", "x", "p">>

\* 'gemini-1.5-pro'
OldProModel ==
    <<"g", "e", "m", "i", "n", "i", "-", "1", ".", "5", "-", "p", "r", "o">>

\* 'my-prompt-model'
PromptModel ==
    <<"m", "y", "-", "p", "r", "o", "m", "p", "t", "-", "m", "o", "d",
      "e", "l">>

OtherModels == {FlashExpModel, OldProModel, PromptModel}

ModelIds == {FlashModel, ProModel, OpenAIModel, AutoModel} \cup OtherModels

\* String.prototype.includes
Includes(seq, sub) ==
    \E i \in 1..(Len(seq) - Len(sub) + 1) :
        SubSeq(seq, i, i + Len(sub) - 1) = sub

\* selectedModel.includes('pro')
IncludesPro(m) == Includes(m, <<"p", "r", "o">>)

\* localStorage.getItem('pb_settings') is null or the JSON text the settings
\* screen stored, which JSON.parse turns into the settings object
\* (types.ts:22-43; the two fields generateAIImage reads)
StoredSettings ==
    [t : {"object"},
     selectedModel : {Undefined, Chars(<<>>)} \cup {Chars(m) : m \in ModelIds},
     gptModelSize : {Undefined, Chars(<<"7", "2", "0">>)}]

Storages ==
    {Null} \cup {[t |-> "item", parsed |-> x] : x \in StoredSettings}

AspectRatios == {"16:9", "9:16", "3:2", "2:3"}

\* the captured photo: its data-URI media type and how the browser decodes it
Sources ==
    {[mime |-> "image/png", img |-> Image(TRUE, 3, 4, TRUE, TRUE)],
     [mime |-> "image/jpeg", img |-> Image(TRUE, 2000, 1500, TRUE, TRUE)],
     [mime |-> "image/jpeg", img |-> Image(FALSE, 0, 0, TRUE, TRUE)],
     [mime |-> "image/png", img |-> Image(TRUE, 3, 4, TRUE, FALSE)]}

GenArgs == [source : Sources, prompt : {"as an astronaut"}, outputRatio : AspectRatios]

\* lines 172-176
ApiAspectRatio(outputRatio) ==
    CASE outputRatio = "16:9" -> "16:9"
      [] outputRatio = "9:16" -> "9:16"
      [] outputRatio = "3:2" -> "4:3"
      [] outputRatio = "2:3" -> "3:4"

\* line 153
MimeType(source) == IF source.mime = "image/png" THEN "image/png" ELSE "image/jpeg"

\* lines 182-189: the template of finalPrompt up to ${prompt}
EditModeHeader ==
    "*** EDIT MODE: HARD LOCK ENABLED ***\n"
    \o "STRICT CONSTRAINTS:\n"
    \o "1. PRESERVE IDENTITY: Face, features, and skin tone must remain EXACTLY the same.\n"
    \o "2. PRESERVE STRUCTURE: Pose, posture, hand gestures, and body shape must remain EXACTLY the same.\n"
    \o "3. PRESERVE FRAMING: Camera angle, zoom, and composition must remain EXACTLY the same. DO NOT CROP. DO NOT ZOOM.\n"
    \o "4. PRESERVE HAIR/HEAD: Keep hairstyle/hijab shape identical unless explicitly asked to change.\n"
    \o "\n"
    \o "CHANGE REQUEST:\n"

\* lines 178-202: executeGenAI(model, useProConfig) issues one
\* generateContent request
GenAICall(args, model, useProConfig) ==
    [tier |-> IF useProConfig THEN "pro" ELSE "flash",
     model |-> model,
     prompt |-> EditModeHeader \o args.prompt,
     mimeType |-> MimeType(args.source),
     aspectRatio |-> ApiAspectRatio(args.outputRatio),
     imageSize |-> IF useProConfig THEN "1K" ELSE "unset"]

\* lines 122-131: the POST to /api/generate-image-openai
OpenAICall(args, resized) ==
    [tier |-> "openai",
     model |-> OpenAIModel,
     prompt |-> args.prompt \o " photorealistic, highly detailed, preserve identity",
     mimeType |-> "image/png",
     aspectRatio |-> "1:1",
     imageSize |-> NumberText(resized.image.width)]

\* lines 229-232: the outer catch logs and rethrows
GenThrow(e) ==
    /\ gresult' = [t |-> "threw", error |-> e]
    /\ gpc' = "done"

GenReturn(value) ==
    /\ gresult' = [t |-> "returned", value |-> value]
    /\ gpc' = "done"

\* lines 162-168: the tier for a detected count
TierForCountAtLeastOne(personCount) ==
    IF personCount >= 1 THEN ProModel ELSE FlashModel

TierForCount(personCount) ==
    IF personCount > 1 THEN ProModel ELSE FlashModel

\* line 213: whether a failed first Gemini attempt is retried on flash
RetryNever(model) == FALSE

RetryAlways(model) == TRUE

RetryOnFlash(model) == IncludesPro(model)

\* lines 204-210: the first Gemini attempt
Dispatch(args, model) ==
    /\ selectedModel' = model
    /\ calls' = Append(calls, IF IncludesPro(model)
                              THEN GenAICall(args, ProModel, TRUE)
                              ELSE GenAICall(args, FlashModel, FALSE))
    /\ inFlight' = {"generate"}
    /\ gpc' = "awaitFirst"
    /\ UNCHANGED gresult

\* lines 149-169, up to the first await: the API key check, then the
\* detector call in auto mode or the first Gemini attempt
GeminiStage(args, model) ==
    IF ~Truthy(env["API_KEY"])
    THEN /\ GenThrow(Err("API Key missing. Please create a .env file with API_KEY=AIzaSy..."))
         /\ selectedModel' = model
         /\ inFlight' = {}
         /\ UNCHANGED calls
    ELSE IF model = AutoModel
    THEN /\ selectedModel' = model
         /\ inFlight' = {"detect"}
         /\ gpc' = "awaitDetect"
         /\ UNCHANGED <<calls, gresult>>
    ELSE Dispatch(args, model)

\* lines 141-146 with the error rethrown / as written: the catch of the
\* OpenAI flow falls back to the flash model
OpenAIFallbackRethrow(args, e) ==
    /\ GenThrow(e)
    /\ selectedModel' = OpenAIModel
    /\ inFlight' = {}
    /\ UNCHANGED calls

OpenAIFallback(args, e) == GeminiStage(args, FlashModel)

\* lines 100-120: from the call to the first await
GenStart ==
    /\ gpc = "idle"
    /\ \E args \in GenArgs :
        /\ gargs' = args
        /\ LET model == IF storage # Null /\ Truthy(storage.parsed.selectedModel)
                          THEN storage.parsed.selectedModel.v
                          ELSE FlashModel
                 size == IF storage # Null
                            /\ storage.parsed.gptModelSize # Undefined
                            /\ storage.parsed.gptModelSize.v # <<>>
                         THEN ParseInt(storage.parsed.gptModelSize.v).v
                         ELSE 1024
             IN  /\ gptSize' = size
                 /\ IF model = OpenAIModel
                    THEN /\ StartResize(args.source.img, size)
                         /\ selectedModel' = model
                         /\ gpc' = "awaitResize"
                         /\ UNCHANGED <<calls, inFlight, gresult>>
                    ELSE /\ GeminiStage(args, model)
                         /\ UNCHANGED resizeVars
    /\ UNCHANGED <<env, storage, detections, outcomes, gresponse, videoVars,
                   openaiVars>>

\* lines 120-131: the resize promise has settled
GenResizeSettled ==
    /\ gpc = "awaitResize"
    /\ rpc \in {"resolved", "rejected"}
    /\ IF rpc = "rejected"
       THEN OpenAIFallback(gargs, rout)
       ELSE /\ calls' = Append(calls, OpenAICall(gargs, rout))
            /\ inFlight' = {"generate"}
            /\ gpc' = "awaitOpenAI"
            /\ UNCHANGED <<selectedModel, gresult>>
    /\ UNCHANGED <<env, storage, gargs, gptSize, detections, outcomes,
                   gresponse, resizeVars, videoVars, openaiVars>>

JsonError == Err("Unexpected token < in JSON at position 0")

\* what fetch('/api/generate-image-openai') settles with (line 122): a
\* rejection or a Response
OpenAIEndpointAnswers ==
    {Err("Failed to fetch")}
    \cup {[t |-> "response", ok |-> TRUE, status |-> 200]}
    \cup {[t |-> "response", ok |-> FALSE, status |-> st] : st \in {400, 500}}

\* what response.json() settles with (lines 134, 138) for the Response r
OpenAIEndpointBodies(r) ==
    {JsonError}
    \cup (IF r.ok
          THEN {[t |-> "object", imageBase64 |-> Undefined],
                [t |-> "object", imageBase64 |-> Str("data:image/png;base64,AAAA")],
                [t |-> "object", imageBase64 |-> Str("data:image/png;base64,QkJD")]}
          ELSE {[t |-> "object", error |-> Str("Server config error: OPENAI_API_KEY missing")],
                [t |-> "object", error |-> Undefined]})

\* lines 133-136: the Error thrown for a non-2xx answer
OpenAIEndpointFailure(ans) ==
    IF ans.json.t = "error" THEN ans.json
    ELSE IF Truthy(ans.json.error) THEN Err(ans.json.error.v)
    ELSE Err("OpenAI Generation Failed")

\* lines 122-133: fetch settles; a rejection goes to the catch of the
\* OpenAI flow, a Response has its body read next
GenOpenAISettles ==
    /\ gpc = "awaitOpenAI"
    /\ \E ans \in OpenAIEndpointAnswers :
        IF ans.t = "error"
        THEN /\ outcomes' = Append(outcomes, ans)
             /\ OpenAIFallback(gargs, ans)
             /\ UNCHANGED gresponse
        ELSE /\ gresponse' = ans
             /\ gpc' = "awaitOpenAIJson"
             /\ UNCHANGED <<selectedModel, calls, inFlight, outcomes, gresult>>
    /\ UNCHANGED <<env, storage, gargs, gptSize, detections,
                   resizeVars, videoVars, openaiVars>>

\* lines 133-146: response.json() settles
GenOpenAIJsonSettles ==
    /\ gpc = "awaitOpenAIJson"
    /\ \E body \in OpenAIEndpointBodies(gresponse) :
        LET ans == [t |-> "response", ok |-> gresponse.ok,
                    status |-> gresponse.status, json |-> body]
        IN  /\ outcomes' = Append(outcomes, ans)
            /\ IF body.t = "error" THEN OpenAIFallback(gargs, body)
               ELSE IF ~ans.ok THEN OpenAIFallback(gargs, OpenAIEndpointFailure(ans))
               ELSE /\ GenReturn(body.imageBase64)
                    /\ inFlight' = {}
                    /\ UNCHANGED <<selectedModel, calls>>
    /\ UNCHANGED <<env, storage, gargs, gptSize, detections, gresponse,
                   resizeVars, videoVars, openaiVars>>

\* lines 159-169: detectPeopleCount settles
GenDetectSettles ==
    /\ gpc = "awaitDetect"
    /\ \E ans \in DetectorAnswers :
        /\ detections' = Append(detections,
                                [answer |-> ans, count |-> DetectPeopleCount(ans)])
        /\ Dispatch(gargs, TierForCount(DetectPeopleCount(ans)))
    /\ UNCHANGED <<env, storage, gargs, gptSize, outcomes, gresponse,
                   resizeVars, videoVars, openaiVars>>

TextPart == [t |-> "object", text |-> Str("Here is the edited image."), inlineData |-> Undefined]

InlinePart(p) ==
    [t |-> "object", text |-> Undefined,
     inlineData |-> [t |-> "object", data |-> p, mimeType |-> "image/png"]]

Candidate(parts) ==
    [t |-> "object", content |-> [t |-> "object", parts |-> parts]]

\* a candidate that was cut off before any content was produced
BlockedCandidate == [t |-> "object", content |-> Undefined]

\* what ai.models.generateContent settles with for an image request
GeminiAnswers ==
    {Err("429 Resource has been exhausted"), Err("500 Internal error")}
    \cup [t : {"response"},
          candidates : {Undefined, Arr(<<>>), Arr(<<BlockedCandidate>>),
                        Arr(<<Candidate(<<>>)>>),
                        Arr(<<Candidate(<<TextPart>>)>>),
                        Arr(<<Candidate(<<TextPart, InlinePart("AAAA")>>)>>),
                        Arr(<<Candidate(<<InlinePart("QkJD"), InlinePart("AAAA")>>)>>),
                        Arr(<<Candidate(<<TextPart>>),
                              Candidate(<<InlinePart("AAAA")>>)>>)}]

\* lines 222-226: the first part of `parts` that carries inlineData
RECURSIVE FirstInline(_)
FirstInline(parts) ==
    IF parts = <<>> THEN Undefined
    ELSE IF Truthy(Head(parts).inlineData) THEN Head(parts).inlineData
    ELSE FirstInline(Tail(parts))

\* lines 220-228: what the flow ends with for a Gemini response
FinishWithResponse(response) ==
    IF ~(Truthy(response.candidates) /\ Len(response.candidates.items) > 0)
    THEN GenThrow(Err("No image data returned from Gemini"))
    ELSE LET content == response.candidates.items[1].content IN
         IF content = Undefined
         THEN GenThrow(Err("Cannot read properties of undefined (reading 'parts')"))
         ELSE LET inline == FirstInline(content.parts) IN
              IF inline = Undefined
              THEN GenThrow(Err("No image data returned from Gemini"))
              ELSE GenReturn(Str(ImageDataUri(inline.data)))

\* lines 205-228: the first Gemini attempt settles
GenFirstSettles ==
    /\ gpc = "awaitFirst"
    /\ \E ans \in GeminiAnswers :
        /\ outcomes' = Append(outcomes, ans)
        /\ IF ans.t = "error"
           THEN IF RetryOnFlash(selectedModel)
                THEN /\ calls' = Append(calls, GenAICall(gargs, FlashModel, FALSE))
                     /\ inFlight' = {"generate"}
                     /\ gpc' = "awaitSecond"
                     /\ UNCHANGED gresult
                ELSE /\ GenThrow(ans)
                     /\ inFlight' = {}
                     /\ UNCHANGED calls
           ELSE /\ FinishWithResponse(ans)
                /\ inFlight' = {}
                /\ UNCHANGED calls
    /\ UNCHANGED <<env, storage, gargs, selectedModel, gptSize, detections,
                   gresponse, resizeVars, videoVars, openaiVars>>

\* lines 214, 220-232: the flash retry settles
GenSecondSettles ==
    /\ gpc = "awaitSecond"
    /\ \E ans \in GeminiAnswers :
        /\ outcomes' = Append(outcomes, ans)
        /\ IF ans.t = "error" THEN GenThrow(ans) ELSE FinishWithResponse(ans)
    /\ inFlight' = {}
    /\ UNCHANGED <<env, storage, gargs, selectedModel, gptSize, calls,
                   detections, gresponse, resizeVars, videoVars, openaiVars>>

GenIdle ==
    /\ gpc = "idle"
    /\ gargs = None
    /\ selectedModel = <<>>
    /\ gptSize = 0
    /\ calls = <<>>
    /\ inFlight = {}
    /\ detections = <<>>
    /\ outcomes = <<>>
    /\ gresponse = None
    /\ gresult = None

Init ==
    /\ env \in Envs({"API_KEY"})
    /\ storage \in Storages
    /\ ResizeIdle /\ VideoIdle /\ OpenAIIdle /\ GenIdle

Next ==
    \/ GenStart
    \/ ImgOnload
    \/ ImgOnerror
    \/ GenResizeSettled
    \/ GenOpenAISettles
    \/ GenOpenAIJsonSettles
    \/ GenDetectSettles
    \/ GenFirstSettles
    \/ GenSecondSettles

Spec == Init /\ [][Next]_vars

----------------------------------------------------------------------------
(* Specifications of the two serverless handlers and of the preprocessor *)

InitVideo ==
    /\ env \in Envs({"GCP_PROJECT_ID", "GCP_CLIENT_EMAIL", "GCP_PRIVATE_KEY"})
    /\ storage = Null
    /\ ResizeIdle /\ VideoIdle /\ OpenAIIdle /\ GenIdle

NextVideo ==
    \/ VideoInvoke
    \/ VideoClientFails
    \/ VideoClientResolves
    \/ VideoTokenFails
    \/ VideoTokenArrives
    \/ VideoFetchSettles
    \/ VideoJsonSettles

SpecVideo == InitVideo /\ [][NextVideo]_vars

InitOpenAI ==
    /\ env \in Envs({"OPENAI_API_KEY"})
    /\ storage = Null
    /\ ResizeIdle /\ VideoIdle /\ OpenAIIdle /\ GenIdle

NextOpenAI ==
    \/ OpenAIInvoke
    \/ OpenAIImageFileSettles
    \/ OpenAIMaskFileSettles
    \/ OpenAIEditSettles

SpecOpenAI == InitOpenAI /\ [][NextOpenAI]_vars

\* a direct call resizeImageForOpenAI(base64Str, maxDim)
CallResize ==
    /\ rpc = "idle"
    /\ \E decodes \in BOOLEAN, w \in 1..MaxSide, h \in 1..MaxSide,
          ctx \in BOOLEAN, maskCtx \in BOOLEAN, maxDim \in 1..MaxDim :
            StartResize(Image(decodes, w, h, ctx, maskCtx), maxDim)
    /\ UNCHANGED <<env, storage, videoVars, openaiVars, genVars>>

InitResize ==
    /\ env \in Envs({})
    /\ storage = Null
    /\ ResizeIdle /\ VideoIdle /\ OpenAIIdle /\ GenIdle

NextResize ==
    \/ CallResize
    \/ ImgOnload
    \/ ImgOnerror

SpecResize == InitResize /\ [][NextResize]_vars

----------------------------------------------------------------------------
(* Properties of the generate-video handler (SpecVideo) *)

VideoPostWithFields ==
    /\ vreq # None
    /\ vreq.method = "POST"
    /\ vreq.body # Undefined
    /\ Truthy(vreq.body.image)
    /\ Truthy(vreq.body.prompt)

CredentialErrorResponse == Response(500, ErrorBody(CredentialError))

\* one of the three GCP variables is unset or empty
SomeCredentialAbsent ==
    \E n \in {"GCP_PROJECT_ID", "GCP_CLIENT_EMAIL", "GCP_PRIVATE_KEY"} :
        env[n] \in {Undefined, Str("")}

\* C1 as stated: every request made while one of GCP_PROJECT_ID,
\* GCP_CLIENT_EMAIL, GCP_PRIVATE_KEY is absent is answered 500 with the
\* credential message, and no outbound call is attempted.  (Read for the
\* POST requests with a JSON body, the requests the endpoint serves.)
C1_EveryRequestGetsCredentialError ==
    ( /\ vreq # None
      /\ vreq.method = "POST"
      /\ vreq.body # Undefined
      /\ SomeCredentialAbsent ) =>
        /\ vres = <<CredentialErrorResponse>>
        /\ vout = <<>>

\* C1 amended: a POST request that carries image and prompt, made while a
\* credential is absent, is answered 500 with the credential message; and
\* whatever the request, no outbound call is attempted while a credential
\* is absent.
C1_CredentialErrorForCompletePost ==
    (vreq # None /\ SomeCredentialAbsent) =>
        /\ vout = <<>>
        /\ vin = <<>>
        /\ vpc = "done"
        /\ VideoPostWithFields => vres = <<CredentialErrorResponse>>

\* a complete POST answered while exactly one credential is absent
C1_Witness ==
    /\ VideoPostWithFields
    /\ ~Truthy(env["GCP_PRIVATE_KEY"])
    /\ Truthy(env["GCP_PROJECT_ID"])
    /\ Truthy(env["GCP_CLIENT_EMAIL"])
    /\ vres = <<CredentialErrorResponse>>

OkAnswer == [t |-> "response", ok |-> TRUE, status |-> 200]

ShapeBareString(p) ==
    [t |-> "object", error |-> Undefined, predictions |-> Arr(<<Str(p)>>)]

ShapeTopLevel(p) ==
    [t |-> "object", error |-> Undefined,
     predictions |-> Arr(<<[t |-> "object", bytesBase64Encoded |-> Str(p),
                            video |-> Undefined]>>)]

ShapeNested(p) ==
    [t |-> "object", error |-> Undefined,
     predictions |-> Arr(<<[t |-> "object", bytesBase64Encoded |-> Undefined,
                            video |-> [t |-> "object",
                                       bytesBase64Encoded |-> Str(p)]]>>)]

\* Vertex answered 2xx with the JSON body data and the handler has ended
VideoAnswered(data) ==
    /\ vpc = "done"
    /\ Len(vin) = 4
    /\ vin[3] = OkAnswer
    /\ vin[4] = data

\* C6: a successful Vertex answer carrying the non-empty payload p nested at
\* predictions[0].video.bytesBase64Encoded, at
\* predictions[0].bytesBase64Encoded, or as the bare string predictions[0]
\* is answered 200 with {video: 'data:video/mp4;base64,' + p} in all three
\* cases.
C6_ThreeShapesSameBody ==
    \A p \in Payloads :
        \A data \in {ShapeBareString(p), ShapeTopLevel(p), ShapeNested(p)} :
            VideoAnswered(data) =>
                vres = <<Response(200, [video |-> "data:video/mp4;base64," \o p])>>

\* the nested shape has been answered
C6_Witness ==
    /\ VideoAnswered(ShapeNested("QkJD"))
    /\ vres = <<Response(200, [video |-> "data:video/mp4;base64,QkJD"])>>

\* C7: a POST request whose body lacks image or lacks prompt is answered
\* 400, whether or not the credentials are configured, without any outbound
\* call.
C7_MissingFieldIs400 ==
    ( /\ vreq # None
      /\ vreq.method = "POST"
      /\ vreq.body # Undefined
      /\ (~Truthy(vreq.body.image) \/ ~Truthy(vreq.body.prompt)) ) =>
        /\ vres = <<Response(400, ErrorBody("Missing image or prompt"))>>
        /\ vout = <<>>
        /\ vpc = "done"

\* a POST with an image but no prompt answered 400 with every credential set,
\* the case that would otherwise go on to the token exchange
C7_Witness ==
    /\ vreq # None
    /\ vreq.method = "POST"
    /\ vreq.body # Undefined
    /\ Truthy(vreq.body.image)
    /\ ~Truthy(vreq.body.prompt)
    /\ ~SomeCredentialAbsent
    /\ vres = <<Response(400, ErrorBody("Missing image or prompt"))>>

\* the 2xx bodies in which none of the known shapes yields a payload:
\* predictions missing or empty, predictions[0] null, an object without
\* either field, or an empty payload string
NoKnownShape(data) ==
    /\ data # Null
    /\ \/ data.predictions = Undefined
       \/ Len(data.predictions.items) = 0
       \/ LET prediction == data.predictions.items[1] IN
            \/ prediction = Null
            \/ prediction = Str("")
            \/ /\ prediction.t = "object"
               /\ ~Truthy(prediction.bytesBase64Encoded)
               /\ \/ prediction.video = Undefined
                  \/ ~Truthy(prediction.video.bytesBase64Encoded)

\* C8 (video endpoint): a 2xx Vertex answer in which no known shape yields
\* a payload is answered 500 'No video data received from Vertex AI.',
\* never a different error and never a success.
C8_NoShapeIsGenericNoData ==
    \A data \in VertexData :
        (VideoAnswered(data) /\ NoKnownShape(data)) =>
            vres = <<Response(500, ErrorBody("No video data received from Vertex AI."))>>

----------------------------------------------------------------------------
(* Properties of the generate-image-openai handler (SpecOpenAI) *)

\* C2: every POST request whose body lacks prompt or lacks imageBase64 is
\* answered 400, whatever the server configuration (OPENAI_API_KEY unset
\* included).
C2_MissingFieldIs400 ==
    ( /\ oreq # None
      /\ oreq.method = "POST"
      /\ oreq.body # Undefined
      /\ (~Truthy(oreq.body.prompt) \/ ~Truthy(oreq.body.imageBase64)) ) =>
        /\ Len(ores) = 1
        /\ ores[1].status = 400

----------------------------------------------------------------------------
(* Properties of resizeImageForOpenAI (SpecResize) *)

Abs(x) == IF x < 0 THEN -x ELSE x

\* q is an integer nearest to n / d
Nearest(q, n, d) == 2 * Abs(q * d - n) <= d

\* C10: the image canvas and the mask canvas are both maxDim x maxDim; the
\* drawn region fits in the canvas, is the source size when neither source
\* edge exceeds maxDim, and otherwise has its longer edge equal to maxDim and
\* its shorter edge equal to the source aspect ratio applied to maxDim,
\* rounded to the nearest integer.
C10_SquareCanvasAspectKept ==
    rpc = "resolved" =>
        LET w == rimg.width
            h == rimg.height
            D == rmaxDim
            dw == rout.image.drawW
            dh == rout.image.drawH
        IN  /\ rout.image.width = D /\ rout.image.height = D
            /\ rout.mask.width = D /\ rout.mask.height = D
            /\ dw <= D /\ dh <= D
            /\ (w <= D /\ h <= D) => (dw = w /\ dh = h)
            /\ (w > D \/ h > D) =>
                  IF w > h THEN dw = D /\ Nearest(dh, D * h, w)
                           ELSE dh = D /\ Nearest(dw, D * w, h)

\* a landscape source wider than the target, scaled with a rounded height
C10_Witness ==
    /\ rpc = "resolved"
    /\ rimg.width > rmaxDim
    /\ rimg.width > rimg.height
    /\ (rmaxDim * rimg.height) % rimg.width # 0
    /\ rout.image.drawW = rmaxDim
    /\ rout.image.drawH < rimg.height

----------------------------------------------------------------------------
(* Properties of generateAIImage (Spec) *)

\* the stored preference is the model id m
PreferenceIs(m) ==
    /\ storage # Null
    /\ storage.parsed.t = "object"
    /\ storage.parsed.selectedModel = Chars(m)

Threw(e) == [t |-> "threw", error |-> e]
Returned(v) == [t |-> "returned", value |-> v]

\* an answer of /api/generate-image-openai that fails the OpenAI path
FailedOpenAIAnswer(ans) ==
    \/ ans.t = "error"
    \/ ans.t = "response" /\ (~ans.ok \/ ans.json.t = "error")

OpenAIPathFailed ==
    /\ PreferenceIs(OpenAIModel)
    /\ \/ rpc = "rejected"
       \/ /\ Len(outcomes) >= 1
          /\ calls[1].tier = "openai"
          /\ FailedOpenAIAnswer(outcomes[1])

\* the Gemini response carries the payload p in the first inline-data part
\* of its first candidate
HasImage(ans, p) ==
    /\ ans.t = "response"
    /\ ans.candidates # Undefined
    /\ Len(ans.candidates.items) > 0
    /\ LET content == ans.candidates.items[1].content IN
        /\ content # Undefined
        /\ \E i \in 1..Len(content.parts) :
            /\ content.parts[i].inlineData # Undefined
            /\ content.parts[i].inlineData.data = p
            /\ \A j \in 1..(i - 1) : content.parts[j].inlineData = Undefined

\* the errors that are on the OpenAI side of the flow
OpenAISideErrors ==
    {Err("Failed to fetch"), JsonError, Err("OpenAI Generation Failed"),
     Err("Server config error: OPENAI_API_KEY missing"),
     Err("No Canvas Context"), Err("No Mask Context"), Err("image load error")}

\* the caller observes what the Gemini answer ans gives
ObservesGemini(ans) ==
    /\ ans.t = "error" => gresult = Threw(ans)
    /\ \A p \in Payloads :
        HasImage(ans, p) => gresult = Returned(Str("data:image/png;base64," \o p))
    /\ (ans.t = "response" /\ \A p \in Payloads : ~HasImage(ans, p)) =>
        gresult.t = "threw"

\* C3: with the stored model 'gpt-image-1.5', whenever a step of the OpenAI
\* path fails (preprocessing rejection, network error, non-2xx answer) the
\* flow goes on to the Gemini stage on the flash model and the caller
\* observes that stage's outcome, never the OpenAI error.
C3_OpenAIFailureFallsBackToGemini ==
    (gpc = "done" /\ OpenAIPathFailed) =>
        /\ selectedModel = FlashModel
        /\ gresult.t = "threw" => gresult.error \notin OpenAISideErrors
        /\ IF Truthy(env["API_KEY"])
           THEN /\ Len(calls) >= 1
                /\ Len(outcomes) >= 1
                /\ calls[Len(calls)].tier = "flash"
                /\ ObservesGemini(outcomes[Len(outcomes)])
           ELSE gresult = Threw(Err("API Key missing. Please create a .env file with API_KEY=AIzaSy..."))

\* a non-2xx answer of the endpoint, then the data URI of the flash call
C3_Witness ==
    /\ gpc = "done"
    /\ OpenAIPathFailed
    /\ Len(calls) = 2
    /\ outcomes[1].t = "response"
    /\ ~outcomes[1].ok
    /\ gresult = Returned(Str("data:image/png;base64,AAAA"))

\* C4: on the Gemini path with the pro tier selected, a failed pro call is
\* followed by one flash call whose response gives the result, or whose
\* error is the error the caller receives; a failed first flash call
\* propagates its error with no further call.
C4_ProFailureRetriesFlashOnce ==
    /\ ( /\ Len(outcomes) >= 1
         /\ calls[1].tier = "pro"
         /\ outcomes[1].t = "error" ) =>
            /\ Len(calls) = 2
            /\ calls[2].tier = "flash"
            /\ Len(outcomes) = 2 =>
                /\ gpc = "done"
                /\ ObservesGemini(outcomes[2])
    /\ ( /\ Len(outcomes) >= 1
         /\ calls[Len(outcomes)].tier = "flash"
         /\ outcomes[Len(outcomes)].t = "error" ) =>
            /\ gpc = "done"
            /\ Len(calls) = Len(outcomes)
            /\ gresult = Threw(outcomes[Len(outcomes)])

\* both tiers failed with different errors and the flash error came out
C4_Witness ==
    /\ gpc = "done"
    /\ Len(outcomes) = 2
    /\ calls[1].tier = "pro"
    /\ outcomes[1] = Err("429 Resource has been exhausted")
    /\ outcomes[2] = Err("500 Internal error")
    /\ gresult = Threw(Err("500 Internal error"))

\* one of the two fallback chains has been triggered
FallbackTriggered ==
    \/ rpc = "rejected" /\ gpc # "awaitResize"
    \/ /\ Len(outcomes) >= 1
       /\ \/ calls[1].tier = "openai" /\ FailedOpenAIAnswer(outcomes[1])
          \/ calls[1].tier = "pro" /\ outcomes[1].t = "error"

\* at most two generation calls, one at a time, the second only after the
\* first has failed and only along openai -> flash or pro -> flash
CallsAreSequentialFallbacks ==
    /\ Cardinality(inFlight) <= 1
    /\ Len(calls) <= 2
    /\ Len(outcomes) <= Len(calls)
    /\ Len(calls) - Len(outcomes) <= 1
    /\ (Len(calls) - Len(outcomes) = 1) <=> (inFlight = {"generate"})
    /\ Len(calls) = 2 =>
        /\ calls[1].tier \in {"openai", "pro"}
        /\ calls[2].tier = "flash"
        /\ calls[1].tier = "openai" => FailedOpenAIAnswer(outcomes[1])
        /\ calls[1].tier = "pro" => outcomes[1].t = "error"

\* C5 as stated: exactly one generation call is made unless a fallback is
\* triggered; a second call only after the first attempt failed, only along
\* openai -> flash or pro -> flash; never a third, never two in flight.
C5_ExactlyOneCallUnlessFallback ==
    /\ CallsAreSequentialFallbacks
    /\ (gpc = "done" /\ ~FallbackTriggered) => Len(calls) = 1

\* C5 amended: without a fallback exactly one generation call is made, or
\* none when the flow throws before its first dispatch, which it does when
\* API_KEY is missing; the rest as stated.
C5_AtMostOneCallUnlessFallback ==
    /\ CallsAreSequentialFallbacks
    /\ (gpc = "done" /\ ~FallbackTriggered) =>
        \/ Len(calls) = 1
        \/ /\ Len(calls) = 0
           /\ gresult.t = "threw"
           /\ ~Truthy(env["API_KEY"])
    /\ (gpc = "done" /\ FallbackTriggered /\ Len(calls) = 0) =>
        ~Truthy(env["API_KEY"])

\* the OpenAI call failed and the flash call that followed has been answered
C5_Witness ==
    /\ gpc = "done"
    /\ Len(calls) = 2
    /\ calls[1].tier = "openai"
    /\ calls[2].tier = "flash"
    /\ Len(outcomes) = 2

\* the detector did not produce a number: it threw, or answered nothing, or
\* answered a text without any digit
DetectorFailed(ans) ==
    \/ ans.t = "error"
    \/ ans.text = Undefined
    \/ \A i \in 1..Len(ans.text.v) : ans.text.v[i] \notin Digits

DetectorCalls == Len(detections) + (IF "detect" \in inFlight THEN 1 ELSE 0)

\* selection in auto mode: one detector call before the first generation
\* call, pro for a count above 1 and flash otherwise, a failed detection
\* counting as 1 without failing the request
AutoSelection ==
    PreferenceIs(AutoModel) =>
        /\ DetectorCalls <= 1
        /\ calls # <<>> => Len(detections) = 1
        /\ Len(detections) = 1 =>
            /\ calls # <<>>
            /\ calls[1].tier = IF detections[1].count > 1 THEN "pro" ELSE "flash"
            /\ DetectorFailed(detections[1].answer) =>
                /\ detections[1].count = 1
                /\ calls[1].tier = "flash"
            /\ detections[1].answer = [t |-> "response", text |-> Chars(<<"2">>)] =>
                detections[1].count = 2
            /\ detections[1].answer = [t |-> "response", text |-> Chars(<<" ", "2">>)] =>
                detections[1].count = 2
            /\ detections[1].answer = [t |-> "response", text |-> Chars(<<"1", "2">>)] =>
                detections[1].count = 12
            /\ detections[1].answer = [t |-> "response", text |-> Chars(<<"1">>)] =>
                detections[1].count = 1
            /\ detections[1].answer = [t |-> "response", text |-> Chars(<<"\n", "2">>)] =>
                detections[1].count = 2
            /\ detections[1].answer = [t |-> "response", text |-> Chars(<<"0", "x", "2">>)] =>
                detections[1].count = 2

TierOf(m) ==
    CASE m = FlashModel -> "flash" [] m = ProModel -> "pro"
      [] m = OpenAIModel -> "openai"

\* C9 as stated: auto mode selects by the detected count; with an explicit
\* provider id the detector is never called and that provider is the first
\* one invoked.
C9_SelectionAsStated ==
    /\ AutoSelection
    /\ \A m \in {FlashModel, ProModel, OpenAIModel} :
        PreferenceIs(m) =>
            /\ DetectorCalls = 0
            /\ calls # <<>> => calls[1].tier = TierOf(m)

\* C9 amended: as stated, except that with 'gpt-image-1.5' a rejected
\* preprocessing means OpenAI is never invoked and the first generation call
\* is the flash fallback.  (A stored id that names none of the providers
\* never calls the detector either, and is served by the pro tier when it
\* contains 'pro' and by the flash tier otherwise.)
C9_SelectionWithPreprocessing ==
    /\ AutoSelection
    /\ \A m \in {FlashModel, ProModel, OpenAIModel} :
        PreferenceIs(m) =>
            /\ DetectorCalls = 0
            /\ calls # <<>> =>
                calls[1].tier = IF m = OpenAIModel /\ rpc = "rejected"
                                THEN "flash" ELSE TierOf(m)
    /\ \A m \in {FlashExpModel, OldProModel, PromptModel} :
        PreferenceIs(m) =>
            /\ DetectorCalls = 0
            /\ calls # <<>> =>
                /\ calls[1].tier = IF m = FlashExpModel THEN "flash" ELSE "pro"
                /\ calls[1].model = IF m = FlashExpModel THEN FlashModel
                                    ELSE ProModel

\* auto mode, the detector answered "2" and the pro tier was called first
C9_Witness ==
    /\ PreferenceIs(AutoModel)
    /\ Len(detections) = 1
    /\ detections[1].answer = [t |-> "response", text |-> Chars(<<"2">>)]
    /\ calls # <<>>
    /\ calls[1].tier = "pro"

----------------------------------------------------------------------------
(* The two serverless handlers side by side (SpecHandlers): each function   *)
(* serves its own invocation, the two sharing process.env only.             *)

InitHandlers ==
    /\ env \in Envs({"GCP_PROJECT_ID", "GCP_CLIENT_EMAIL", "GCP_PRIVATE_KEY",
                     "OPENAI_API_KEY"})
    /\ storage = Null
    /\ ResizeIdle /\ VideoIdle /\ OpenAIIdle /\ GenIdle

NextHandlers ==
    \/ VideoInvoke
    \/ VideoClientFails
    \/ VideoClientResolves
    \/ VideoTokenFails
    \/ VideoTokenArrives
    \/ VideoFetchSettles
    \/ VideoJsonSettles
    \/ OpenAIInvoke
    \/ OpenAIImageFileSettles
    \/ OpenAIMaskFileSettles
    \/ OpenAIEditSettles

SpecHandlers == InitHandlers /\ [][NextHandlers]_vars

\* one response once the invocation has ended, none before
OneResponse(pc, res) ==
    /\ Len(res) <= 1
    /\ (pc = "done") <=> (Len(res) = 1)

\* OPTIONS is answered 200 and any other method but POST 405, whatever the
\* body and the configuration, without an outbound call
MethodGate(req, res, out) ==
    /\ (req # None /\ req.method = "OPTIONS") =>
        /\ res = <<Response(200, EndBody)>>
        /\ out = <<>>
    /\ (req # None /\ req.method \notin {"OPTIONS", "POST"}) =>
        /\ res = <<Response(405, ErrorBody("Method not allowed"))>>
        /\ out = <<>>

\* C11: in both handlers every invocation sends exactly one HTTP response;
\* an outbound call (token exchange, Vertex predict, OpenAI images.edit) is
\* made only after the method is POST, the required body fields are present
\* and the credentials are present; OPTIONS is answered 200 and any other
\* non-POST method 405, before body validation and without outbound call.
C11_OneResponseAndGatedOutboundCalls ==
    /\ OneResponse(vpc, vres)
    /\ OneResponse(opc, ores)
    /\ MethodGate(vreq, vres, vout)
    /\ MethodGate(oreq, ores, oout)
    /\ vout # <<>> =>
        /\ vreq.method = "POST"
        /\ vreq.body # Undefined
        /\ Truthy(vreq.body.image)
        /\ Truthy(vreq.body.prompt)
        /\ ~SomeCredentialAbsent
    /\ oout # <<>> =>
        /\ oreq.method = "POST"
        /\ oreq.body # Undefined
        /\ Truthy(oreq.body.prompt)
        /\ Truthy(oreq.body.imageBase64)
        /\ env["OPENAI_API_KEY"] \notin {Undefined, Str("")}
    /\ Len(vout) <= 2
    /\ Len(oout) <= 1

\* the video handler made both outbound calls and answered once, and the
\* OpenAI handler answered a GET without fields 405 without calling out
C11_Witness ==
    /\ vpc = "done"
    /\ Len(vout) = 2
    /\ Len(vres) = 1
    /\ vres[1].status = 200
    /\ opc = "done"
    /\ oreq.method = "GET"
    /\ oreq.body = Undefined
    /\ ores = <<Response(405, ErrorBody("Method not allowed"))>>
    /\ oout = <<>>

====
